---- MODULE Spec2Model ----
(***************************************************************************)
(* Model of Home.py, the documentation generator: the section catalog,     *)
(* the generation run, the feedback submission and the document assembly   *)
(* (create_docx).  Python strings are TLA+ strings; str.split, str.strip   *)
(* and str.upper are computed on them character by character.              *)
(***************************************************************************)
EXTENDS Integers, Sequences, FiniteSets, TLC

(***************************************************************************)
(* Bounds of the model.                                                    *)
(***************************************************************************)
\* feedback_history grows without limit in the code; the model stops
\* accepting feedback submissions once it holds MaxFeedback records.
MaxFeedback == 2

(***************************************************************************)
(* Text helpers: Python's str operations on TLA+ strings, computed         *)
(* character by character.                                                 *)
(***************************************************************************)
\* s[i] (1-based) and s[i:] of a string.
CharAt(s, i) == SubSeq(s, i, i)
From(s, i) == SubSeq(s, i, Len(s))

LowerLetters == "abcdefghijklmnopqrstuvwxyz"
UpperLetters == "ABCDEFGHIJKLMNOPQRSTUVWXYZ"

\* The upper-case form of each lower-case letter.
UpperOf ==
    [c \in {CharAt(LowerLetters, i) : i \in 1..Len(LowerLetters)} |->
        CharAt(UpperLetters,
               CHOOSE i \in 1..Len(LowerLetters) : CharAt(LowerLetters, i) = c)]

\* str.upper() on one character.
upper_char(c) == IF c \in DOMAIN UpperOf THEN UpperOf[c] ELSE c

\* str.upper()
RECURSIVE upper(_)
upper(s) == IF s = "" THEN "" ELSE upper_char(CharAt(s, 1)) \o upper(From(s, 2))

\* The characters str.strip() and str.split() treat as whitespace.
Whitespace == {" ", "\n", "\t", "\r"}

IsSpace(c) == c \in Whitespace

\* s.lstrip(chars): leading characters of the set chars removed.
RECURSIVE lstrip(_, _)
lstrip(s, chars) ==
    IF s # "" /\ CharAt(s, 1) \in chars THEN lstrip(From(s, 2), chars) ELSE s

\* s.rstrip(chars): trailing characters of the set chars removed.
RECURSIVE rstrip(_, _)
rstrip(s, chars) ==
    IF s # "" /\ CharAt(s, Len(s)) \in chars
    THEN rstrip(SubSeq(s, 1, Len(s) - 1), chars)
    ELSE s

\* str.strip(): whitespace removed at both ends.
strip(s) == rstrip(lstrip(s, Whitespace), Whitespace)

\* token.strip('#'): '#' removed at both ends.
strip_hash(s) == rstrip(lstrip(s, {"#"}), {"#"})

\* s.startswith('#')
startswith_hash(s) == s # "" /\ CharAt(s, 1) = "#"

\* str.split(): the maximal runs of non-whitespace characters.
RECURSIVE split(_)
split(s) ==
    LET t == lstrip(s, Whitespace)
        n == IF \E i \in 1..Len(t) : IsSpace(CharAt(t, i))
             THEN (CHOOSE i \in 1..Len(t) :
                      /\ IsSpace(CharAt(t, i))
                      /\ \A j \in 1..(i - 1) : ~IsSpace(CharAt(t, j))) - 1
             ELSE Len(t)
    IN  IF t = "" THEN <<>>
        ELSE <<SubSeq(t, 1, n)>> \o split(From(t, n + 1))

\* content.split('\n\n'): cut at every non-overlapping blank line, left to
\* right; empty pieces are kept.
RECURSIVE split_blank(_)
split_blank(s) ==
    LET Cut(i) == SubSeq(s, i, i + 1) = "\n\n"
    IN  IF \E i \in 1..(Len(s) - 1) : Cut(i)
        THEN LET i == CHOOSE i \in 1..(Len(s) - 1) :
                          Cut(i) /\ \A j \in 1..(i - 1) : ~Cut(j)
             IN  <<SubSeq(s, 1, i - 1)>> \o split_blank(From(s, i + 2))
        ELSE <<s>>

\* ' '.join(tokens)
RECURSIVE join_space(_)
join_space(tokens) ==
    IF tokens = <<>> THEN ""
    ELSE IF Len(tokens) = 1 THEN tokens[1]
    ELSE tokens[1] \o " " \o join_space(Tail(tokens))

\* Concatenation of a sequence of sequences.
RECURSIVE Flatten(_)
Flatten(ss) == IF ss = <<>> THEN <<>> ELSE Head(ss) \o Flatten(Tail(ss))

(***************************************************************************)
(* The section catalog (SECTIONS).                                         *)
(***************************************************************************)
\* The keys of SECTIONS in insertion order, which is the order every loop
\* over SECTIONS.items() follows.
SECTION_KEYS ==
    << "COVER_PAGE", "CONTENTS", "ABSTRACT", "LITERATURE_SURVEY",
       "CHAPTER_1", "CHAPTER_2", "CHAPTER_3", "CHAPTER_4", "CHAPTER_5",
       "CHAPTER_6", "REFERENCES" >>

SectionKeySet == {SECTION_KEYS[i] : i \in 1..Len(SECTION_KEYS)}

SECTIONS ==
    [k \in SectionKeySet |->
       CASE k = "COVER_PAGE" -> [title |-> "COVER PAGE", pages |-> 1]
         [] k = "CONTENTS" -> [title |-> "TABLE OF CONTENTS", pages |-> 1]
         [] k = "ABSTRACT" -> [title |-> "ABSTRACT", pages |-> 1]
         [] k = "LITERATURE_SURVEY" ->
                [title |-> "LITERATURE SURVEY", pages |-> 3]
         [] k = "CHAPTER_1" ->
                [title |-> "CHAPTER 1: INTRODUCTION", pages |-> 3]
         [] k = "CHAPTER_2" ->
                [title |-> "CHAPTER 2: WORKING AND BLOCK DIAGRAM", pages |-> 4]
         [] k = "CHAPTER_3" ->
                [title |-> "CHAPTER 3: HARDWARE COMPONENTS DESCRIPTION",
                 pages |-> 5]
         [] k = "CHAPTER_4" ->
                [title |-> "CHAPTER 4: SOFTWARE DESCRIPTION", pages |-> 4]
         [] k = "CHAPTER_5" ->
                [title |-> "CHAPTER 5: ADVANTAGES & APPLICATIONS", pages |-> 2]
         [] k = "CHAPTER_6" ->
                [title |-> "CHAPTER 6: FUTURE SCOPE & CONCLUSION", pages |-> 2]
         [] k = "REFERENCES" -> [title |-> "REFERENCES", pages |-> 1]]

\* The keys create_docx renders as chapters and the feedback selectbox
\* offers: every key but COVER_PAGE and CONTENTS, in catalog order.
ChapterKeys ==
    SelectSeq(SECTION_KEYS, LAMBDA k : k \notin {"COVER_PAGE", "CONTENTS"})

ChapterKeySet == {ChapterKeys[i] : i \in 1..Len(ChapterKeys)}

\* The fixed literal stored for CONTENTS.
TOC_LITERAL == "TABLE OF CONTENTS"

(***************************************************************************)
(* Inputs: what the user types and what the two backends return.           *)
(***************************************************************************)
\* Section texts a backend returns: a plain paragraph; paragraphs mixed
\* with '#'-marked headings; a heading whose first token carries nine
\* characters after its '#'.
T_PLAIN == "Plain text."
T_HEAD  == "Intro line.\n\n## Example Heading\n\n###Scope notes"
T_DEEP  == "#abcdefghi tail"

Texts == {T_PLAIN, T_HEAD, T_DEEP}

\* model.invoke(prompt): a response object with .content, or an exception.
Response(content) == [ok |-> TRUE, content |-> content]
BackendFailure    == [ok |-> FALSE, content |-> ""]

Outcomes == {Response(t) : t \in Texts} \cup {BackendFailure}

\* The sections a run's backend calls deviate at.
DeviationKeys == {"ABSTRACT", "CHAPTER_3", "REFERENCES"}

\* What the backends do during one generation run, per section invoked:
\* T_PLAIN everywhere, except one section where the call returns another
\* text or raises.
Scripts ==
    {[k \in ChapterKeySet |-> IF k = at THEN o ELSE Response(T_PLAIN)] :
        at \in DeviationKeys, o \in Outcomes}

\* No backend call is made when the abstract is empty, so one script
\* stands for all of them there.
ScriptsFor(project_abstract) ==
    IF project_abstract = ""
    THEN {[k \in ChapterKeySet |-> Response(T_PLAIN)]}
    ELSE Scripts

\* The project abstract text area: empty or filled.
Abstracts == {"", "A Bluetooth-controlled robot car using Arduino"}

\* The feedback text area.
Feedbacks == {"add sources"}

\* The sections a user looks for in the review selectbox.
ReviewKeys == {"CONTENTS", "ABSTRACT", "CHAPTER_3"}

TODAY == "November 04, 2026"

\* st.session_state.metadata as main() rebuilds it on every script run.
MetadataInputs ==
    [title : {"Robot car"},
     author : {"Asha"},
     institution : {""},
     project_type : {"Arduino-based"},
     date : {TODAY}]

(***************************************************************************)
(* The document object: a body (the block elements in order) and a footer. *)
(***************************************************************************)
\* doc.add_heading(text, level); ValueError outside 0..9 is modelled by
\* HeadingLevelOk at the call.
Heading(text, level, alignment) ==
    [kind |-> "heading", level |-> level, text |-> text, alignment |-> alignment]

\* doc.add_paragraph(text)
Paragraph(text, alignment) ==
    [kind |-> "paragraph", level |-> -1, text |-> text, alignment |-> alignment]

\* doc.add_page_break()
PageBreak ==
    [kind |-> "page_break", level |-> -1, text |-> "", alignment |-> "NONE"]

\* python-docx accepts heading levels 0..9 and raises ValueError otherwise.
HeadingLevelOk(level) == level \in 0..9

\* add_placeholder_toc(doc)
add_placeholder_toc ==
    << Heading("TABLE OF CONTENTS", 1, "NONE"),
       Paragraph("This Table of Contents will automatically update when you open the document in Microsoft Word. Right-click and select 'Update Field' to update it.", "NONE"),
       Paragraph("To replace this with an actual Table of Contents in Word:", "NONE"),
       Paragraph("1. Delete this text", "NONE"),
       Paragraph("2. Go to References tab", "NONE"),
       Paragraph("3. Click 'Table of Contents'", "NONE"),
       Paragraph("4. Select a style", "NONE") >>

\* The cover page of create_docx: title heading at level 0, one centered
\* paragraph per non-empty metadata field, the image placeholder, a break.
cover_page(metadata) ==
    LET Field(f) == IF metadata[f] # ""
                    THEN <<Paragraph(upper(metadata[f]), "CENTER")>>
                    ELSE <<>>
    IN  <<Heading(upper(metadata.title), 0, "CENTER")>>
        \o Field("author") \o Field("institution") \o Field("date")
        \o <<Paragraph("[Space reserved for project image]", "CENTER")>>
        \o <<PageBreak>>

\* level = len(para.split()[0].strip('#'))
heading_level(para) == Len(strip_hash(split(para)[1]))

\* text = ' '.join(para.split()[1:]).upper()
heading_text(para) == upper(join_space(Tail(split(para))))

\* The loop body over one paragraph of a section's content: nothing for a
\* blank paragraph, a sub-heading when the stripped paragraph starts with
\* '#', a justified body paragraph otherwise.
paragraph_elements(para) ==
    IF strip(para) = "" THEN <<>>
    ELSE IF startswith_hash(strip(para))
         THEN <<Heading(heading_text(para), heading_level(para) + 1, "LEFT")>>
         ELSE <<Paragraph(strip(para), "JUSTIFY")>>

\* doc.add_heading raises on this paragraph.
paragraph_raises(para) ==
    /\ strip(para) # ""
    /\ startswith_hash(strip(para))
    /\ ~HeadingLevelOk(heading_level(para) + 1)

\* The elements of a section's content: content.split('\n\n'), each
\* paragraph rendered in order.
content_elements(content) ==
    LET paragraphs == split_blank(content)
    IN  Flatten([i \in 1..Len(paragraphs) |-> paragraph_elements(paragraphs[i])])

\* doc.add_heading raises on some paragraph of the content.
content_raises(content) ==
    LET paragraphs == split_blank(content)
    IN  \E i \in 1..Len(paragraphs) : paragraph_raises(paragraphs[i])

\* content_elements and content_raises tabulated once over the texts
\* doc_sections can hold, so that a state's document is not re-parsed.
StoredTexts == Texts \cup {TOC_LITERAL}

ContentElements == [t \in StoredTexts |-> content_elements(t)]

ContentRaises == [t \in StoredTexts |-> content_raises(t)]

\* section_elements without the page break that closes a section.
section_elements_unbroken(section_key, sections) ==
    <<Heading(SECTIONS[section_key].title, 1, "CENTER")>>
    \o (IF section_key \in DOMAIN sections
        THEN ContentElements[sections[section_key]]
        ELSE <<>>)

\* One iteration of the loop over SECTIONS in create_docx for a chapter key:
\* the centered level-1 heading, the content when the key is stored, and the
\* page break.
section_elements(section_key, sections) ==
    <<Heading(SECTIONS[section_key].title, 1, "CENTER")>>
    \o (IF section_key \in DOMAIN sections
        THEN ContentElements[sections[section_key]]
        ELSE <<>>)
    \o <<PageBreak>>

FOOTER == "Page - {PAGE} - (Open in Word to see actual page numbers)"

\* create_docx raises (ValueError from add_heading) before doc.save.
create_docx_raises(sections) ==
    \E k \in ChapterKeySet \cap DOMAIN sections : ContentRaises[sections[k]]

\* The document create_docx saves when it does not raise, read with
\* st.session_state.doc_sections = sections.
create_docx(metadata, sections) ==
    [body |-> cover_page(metadata)
              \o add_placeholder_toc \o <<PageBreak>>
              \o Flatten([i \in 1..Len(ChapterKeys) |->
                            section_elements(ChapterKeys[i], sections)]),
     footer |-> FOOTER]

(***************************************************************************)
(* State.                                                                  *)
(***************************************************************************)
VARIABLES
    doc_sections,      \* st.session_state.doc_sections: key -> text
    metadata,          \* st.session_state.metadata
    feedback_history,  \* st.session_state.feedback_history
    has_generated,     \* st.session_state.has_generated
    file,              \* project_documentation.docx: <<>> or <<document>>
    last               \* the handler that ran last: its input, how it
                       \* ended, the backend chosen per section, the calls

vars == <<doc_sections, metadata, feedback_history, has_generated, file, last>>

\* dict[key] = value
Put(d, key, value) ==
    [k \in (DOMAIN d) \cup {key} |-> IF k = key THEN value ELSE d[k]]

\* What is kept about a handler run.  selected: one entry per evaluation of
\* the backend choice, with the count it was taken on; invoked: one entry
\* per model.invoke, with its result.
Ran(op, outcome, input, selected, invoked) ==
    [op |-> op, outcome |-> outcome, input |-> input,
     selected |-> selected, invoked |-> invoked]

Selection(section_key, count, model) ==
    [section |-> section_key, count |-> count, model |-> model]

Invocation(section_key, model, response) ==
    [section |-> section_key, model |-> model,
     ok |-> response.ok, content |-> response.content]

Init ==
    /\ doc_sections = <<>>
    /\ metadata \in MetadataInputs
    /\ feedback_history = <<>>
    /\ has_generated = FALSE
    /\ file = <<>>
    /\ last = Ran("start", "none", "", <<>>, <<>>)

(***************************************************************************)
(* Generate Documentation.                                                 *)
(***************************************************************************)
\* generation_model with the parity test off by one.
generation_model_odd(sections) ==
    IF Cardinality(DOMAIN sections) % 2 = 1 THEN "groq_model" ELSE "google_model"

\* model = groq_model if len(doc_sections) % 2 == 0 else google_model
generation_model(sections) ==
    IF Cardinality(DOMAIN sections) % 2 = 0 THEN "groq_model" ELSE "google_model"

\* The body of the loop over SECTIONS.items() for one key.  run.sections is
\* doc_sections so far; run.failed is set when model.invoke raises, which
\* leaves the loop.
process_section(section_key, run, script) ==
    LET model == generation_model(run.sections)
        chosen == Append(run.selected,
                         Selection(section_key, Cardinality(DOMAIN run.sections),
                                   model))
        called == Append(run.invoked,
                         Invocation(section_key, model, script[section_key]))
    IN  IF section_key = "COVER_PAGE" THEN run
        ELSE IF section_key = "CONTENTS"
        THEN [run EXCEPT !.sections = Put(@, section_key, TOC_LITERAL),
                         !.selected = chosen]
        ELSE IF ~script[section_key].ok
        THEN [run EXCEPT !.selected = chosen, !.invoked = called,
                         !.failed = TRUE]
        ELSE [run EXCEPT !.sections =
                             Put(@, section_key, script[section_key].content),
                         !.selected = chosen, !.invoked = called]

\* The loop over SECTIONS.items() from position i on.
RECURSIVE generation_loop(_, _, _)
generation_loop(i, run, script) ==
    IF i > Len(SECTION_KEYS) \/ run.failed THEN run
    ELSE generation_loop(i + 1, process_section(SECTION_KEYS[i], run, script),
                         script)

\* generation_run with an exception handler that discards what the aborted
\* run had stored.
generation_run_discarding(script) ==
    LET run == generation_loop(1,
                   [sections |-> <<>>, selected |-> <<>>, invoked |-> <<>>,
                    failed |-> FALSE],
                   script)
    IN  IF run.failed THEN [run EXCEPT !.sections = <<>>] ELSE run

\* The try block up to the call of create_docx: doc_sections = {} and the
\* loop.
generation_run(script) ==
    generation_loop(1,
        [sections |-> <<>>, selected |-> <<>>, invoked |-> <<>>, failed |-> FALSE],
        script)

\* generation_run tabulated once over the scripts of the model.
GenerationRuns ==
    [script \in Scripts \cup ScriptsFor("") |-> generation_run(script)]

\* A click on "Generate Documentation" with the given inputs.
GenerateDocumentation(m, project_abstract, script) ==
    LET run == GenerationRuns[script]
        Ended(outcome) ==
            Ran("generate", outcome, project_abstract, run.selected, run.invoked)
    IN  /\ metadata' = m
        /\ UNCHANGED feedback_history
        /\ IF project_abstract = ""
           THEN /\ last' = Ran("generate", "warning", project_abstract, <<>>, <<>>)
                /\ UNCHANGED <<doc_sections, has_generated, file>>
           ELSE /\ doc_sections' = run.sections
                /\ IF run.failed
                   THEN /\ last' = Ended("backend_error")
                        /\ UNCHANGED <<has_generated, file>>
                   ELSE IF create_docx_raises(run.sections)
                   THEN /\ last' = Ended("docx_error")
                        /\ UNCHANGED <<has_generated, file>>
                   ELSE /\ file' = <<create_docx(m, run.sections)>>
                        /\ has_generated' = TRUE
                        /\ last' = Ended("ok")

(***************************************************************************)
(* Submit Feedback.                                                        *)
(***************************************************************************)
\* review_options filtering the cover page only.
review_options_with_contents == SectionKeySet \ {"COVER_PAGE"}

\* options=[k for k in SECTIONS.keys() if k != "COVER_PAGE" and k != "CONTENTS"]
review_options == SectionKeySet \ {"COVER_PAGE", "CONTENTS"}

\* model = google_model if len(feedback_history) % 2 == 0 else groq_model
feedback_model(history) ==
    IF Len(history) % 2 = 0 THEN "google_model" ELSE "groq_model"

\* feedback_record keeping the section's key instead of its title.
feedback_record_by_key(selected_section, feedback) ==
    [section |-> selected_section, feedback |-> feedback]

\* The FeedbackRecord appended after a revision.  Its timestamp
\* (datetime.now()) is only displayed and is left out.
feedback_record(selected_section, feedback) ==
    [section |-> SECTIONS[selected_section].title, feedback |-> feedback]

\* feedback_try recording the feedback before the backend is invoked.
feedback_try_eager(sections, history, selected_section, feedback, response) ==
    LET called == <<Invocation(selected_section, feedback_model(history), response)>>
        revised == Put(sections, selected_section, response.content)
        recorded == Append(history, feedback_record(selected_section, feedback))
        End(outcome, s, h, saved, invoked) ==
            [outcome |-> outcome, sections |-> s, history |-> h,
             saved |-> saved, invoked |-> invoked]
    IN  IF selected_section \notin DOMAIN sections
        THEN End("key_error", sections, history, FALSE, <<>>)
        ELSE IF ~response.ok
        THEN End("backend_error", sections, recorded, FALSE, called)
        ELSE IF create_docx_raises(revised)
        THEN End("docx_error", revised, recorded, FALSE, called)
        ELSE End("ok", revised, recorded, TRUE, called)

\* feedback_try reading the current content with .get(selected_section, ""),
\* as the review panel does, so that a missing key raises nothing.
feedback_try_with_get(sections, history, selected_section, feedback, response) ==
    LET called == <<Invocation(selected_section, feedback_model(history), response)>>
        revised == Put(sections, selected_section, response.content)
        End(outcome, s, h, saved, invoked) ==
            [outcome |-> outcome, sections |-> s, history |-> h,
             saved |-> saved, invoked |-> invoked]
    IN  IF ~response.ok
        THEN End("backend_error", sections, history, FALSE, called)
        ELSE IF create_docx_raises(revised)
        THEN End("docx_error", revised, history, FALSE, called)
        ELSE End("ok", revised,
                 Append(history, feedback_record(selected_section, feedback)),
                 TRUE, called)

\* The try block of the "Submit Feedback" handler on the given session
\* state: how it ends, doc_sections and feedback_history afterwards, and
\* whether create_docx saved the file.
feedback_try(sections, history, selected_section, feedback, response) ==
    LET model == feedback_model(history)
        called == <<Invocation(selected_section, model, response)>>
        revised == Put(sections, selected_section, response.content)
        End(outcome, s, h, saved, invoked) ==
            [outcome |-> outcome, sections |-> s, history |-> h,
             saved |-> saved, invoked |-> invoked]
    IN  IF selected_section \notin DOMAIN sections
        THEN \* KeyError while the prompt is formatted
             End("key_error", sections, history, FALSE, <<>>)
        ELSE IF ~response.ok
        THEN End("backend_error", sections, history, FALSE, called)
        ELSE IF create_docx_raises(revised)
        THEN End("docx_error", revised, history, FALSE, called)
        ELSE End("ok", revised,
                 Append(history, feedback_record(selected_section, feedback)),
                 TRUE, called)

\* A click on "Submit Feedback" for the selected section; the review panel
\* exists only while has_generated is set.
SubmitFeedback(m, selected_section, feedback, response) ==
    LET end == feedback_try(doc_sections, feedback_history, selected_section,
                            feedback, response)
        model == feedback_model(feedback_history)
    IN  /\ has_generated
        /\ selected_section \in review_options
        /\ Len(feedback_history) < MaxFeedback
        /\ metadata' = m
        /\ UNCHANGED has_generated
        /\ doc_sections' = end.sections
        /\ feedback_history' = end.history
        /\ file' = IF end.saved THEN <<create_docx(m, end.sections)>> ELSE file
        /\ last' = Ran("feedback", end.outcome, feedback,
                       <<Selection(selected_section, Len(feedback_history), model)>>,
                       end.invoked)

Next ==
    \/ \E m \in MetadataInputs, a \in Abstracts :
          \E script \in ScriptsFor(a) : GenerateDocumentation(m, a, script)
    \/ \E m \in MetadataInputs, k \in ReviewKeys, f \in Feedbacks, r \in Outcomes :
          SubmitFeedback(m, k, f, r)

Spec == Init /\ [][Next]_vars

(***************************************************************************)
(* Properties.                                                             *)
(***************************************************************************)
\* The step just taken was a generation run that a backend failure aborted.
GenerationAborted == last'.op = "generate" /\ last'.outcome = "backend_error"

\* The step just taken was a feedback submission that ended as given.
FeedbackEnded(outcome) == last'.op = "feedback" /\ last'.outcome = outcome

\* C1 as stated: when a backend failure aborts a generation run, every
\* doc_sections entry that existed before the run is still present with the
\* same text afterwards.
C1_PriorSectionsSurvive ==
    [][GenerationAborted =>
          \A k \in DOMAIN doc_sections :
              k \in DOMAIN doc_sections' /\ doc_sections'[k] = doc_sections[k]]_vars

\* C1 amended: when a backend failure aborts a generation run, what the run
\* itself stored before the failing call is kept: doc_sections holds exactly
\* CONTENTS (the fixed literal) and the sections before the failing one in
\* catalog order, each with the text its call returned; the entries from
\* before the run are gone.  feedback_history, has_generated and the output
\* file are as before the run.
C1_RunKeepsOwnSections ==
    [][GenerationAborted =>
          LET calls == last'.invoked
              n == Len(calls)
          IN  /\ n >= 1
              /\ ~calls[n].ok
              /\ \A i \in 1..n : calls[i].section = ChapterKeys[i]
              /\ DOMAIN doc_sections' =
                     {"CONTENTS"} \cup {ChapterKeys[i] : i \in 1..(n - 1)}
              /\ doc_sections'["CONTENTS"] = TOC_LITERAL
              /\ \A i \in 1..(n - 1) :
                     calls[i].ok /\ doc_sections'[calls[i].section] = calls[i].content
              /\ UNCHANGED <<feedback_history, has_generated, file>>]_vars

\* C1 witness: a run aborted after storing sections of its own, in a session
\* that held a generated and revised document before.
C1_Witness ==
    /\ last.op = "generate"
    /\ last.outcome = "backend_error"
    /\ has_generated
    /\ feedback_history # <<>>
    /\ Cardinality(DOMAIN doc_sections) > 1

\* C2 as stated: whenever has_generated is set, the output file is the
\* assembly of the doc_sections mapping currently held.
C2_ArtifactReflectsSections ==
    has_generated =>
        \E m \in MetadataInputs : file = <<create_docx(m, doc_sections)>>

\* C3: a successful feedback submission for section S replaces the entry of
\* S by the backend's response, leaves every other entry as it was, and
\* appends one FeedbackRecord carrying S's title and the submitted text
\* after the unchanged earlier records.
C3_FeedbackFrame ==
    [][FeedbackEnded("ok") =>
          LET call == last'.invoked[1]
              S == call.section
              n == Len(feedback_history)
          IN  /\ Len(last'.invoked) = 1
              /\ call.ok
              /\ DOMAIN doc_sections' = DOMAIN doc_sections
              /\ S \in DOMAIN doc_sections
              /\ doc_sections'[S] = call.content
              /\ \A k \in DOMAIN doc_sections \ {S} :
                     doc_sections'[k] = doc_sections[k]
              /\ Len(feedback_history') = n + 1
              /\ SubSeq(feedback_history', 1, n) = feedback_history
              /\ feedback_history'[n + 1].section = SECTIONS[S].title
              /\ feedback_history'[n + 1].feedback = last'.input]_vars

\* C3 witness: a second successful submission, for another section than the
\* first, that changed the section's text.
C3_Witness ==
    /\ last.op = "feedback"
    /\ last.outcome = "ok"
    /\ Len(feedback_history) = 2
    /\ feedback_history[1].section # feedback_history[2].section
    /\ \E k \in DOMAIN doc_sections :
           doc_sections[last.invoked[1].section] # doc_sections[k]

\* C4: a feedback submission whose backend call fails leaves doc_sections,
\* feedback_history, has_generated and the output file as they were.
C4_FailedFeedbackChangesNothing ==
    [][FeedbackEnded("backend_error") =>
          UNCHANGED <<doc_sections, feedback_history, has_generated, file>>]_vars

\* C4 witness: a failed backend call of a submission, after an earlier
\* successful one.
C4_Witness ==
    /\ last.op = "feedback"
    /\ last.outcome = "backend_error"
    /\ Len(last.invoked) = 1
    /\ ~last.invoked[1].ok
    /\ feedback_history # <<>>

\* C5: in a generation run the i-th section processed (CONTENTS first) meets
\* i - 1 entries stored by this run, and the backend chosen for it is
\* groq_model when that count is even and google_model when it is odd,
\* whatever the section.
C5_BackendAlternates ==
    last.op = "generate" /\ last.outcome # "warning" =>
        /\ Len(last.selected) >= 2
        /\ \A i \in 1..Len(last.selected) :
               /\ last.selected[i].section = SECTION_KEYS[i + 1]
               /\ last.selected[i].count = i - 1
               /\ last.selected[i].model =
                      IF (i - 1) % 2 = 0 THEN "groq_model" ELSE "google_model"

\* C5 witness: a complete run, started while doc_sections held the sections
\* of an earlier run.
C5_Witness ==
    /\ last.op = "generate"
    /\ last.outcome = "ok"
    /\ Len(last.selected) = Len(SECTION_KEYS) - 1
    /\ feedback_history # <<>>

\* C6: no backend call is made for CONTENTS, and a stored CONTENTS entry is
\* the fixed literal.
C6_ContentsIsLiteral ==
    /\ \A i \in 1..Len(last.invoked) : last.invoked[i].section # "CONTENTS"
    /\ "CONTENTS" \in DOMAIN doc_sections =>
           doc_sections["CONTENTS"] = "TABLE OF CONTENTS"

\* C6 witness: CONTENTS is stored after runs, a failed run and a revision.
C6_Witness ==
    /\ "CONTENTS" \in DOMAIN doc_sections
    /\ feedback_history # <<>>
    /\ last.op = "generate"
    /\ last.outcome = "backend_error"
    /\ last.invoked # <<>>

\* The elements of a document body that are headings of the given level.
HeadingsAt(body, level) ==
    SelectSeq(body, LAMBDA e : e.kind = "heading" /\ e.level = level)

\* C7 as stated: in the saved document the top-level headings after the
\* table-of-contents heading are the titles of the sections other than
\* COVER_PAGE and CONTENTS, one each, in catalog order, and nothing else,
\* whether or not doc_sections has an entry for each.
C7_OneTopHeadingPerSection ==
    file # <<>> =>
        LET tops == Tail(HeadingsAt(file[1].body, 1))
        IN  /\ Len(tops) = Len(ChapterKeys)
            /\ \A i \in 1..Len(ChapterKeys) :
                   tops[i].text = SECTIONS[ChapterKeys[i]].title

\* The length of the run of '#' a string starts with.
MarkerRun(s) == Len(s) - Len(lstrip(s, {"#"}))

\* C8 as stated: every non-empty blank-line-separated paragraph of a stored
\* section text that begins with k '#' is rendered as one sub-heading of
\* level k whose text is the rest of the paragraph in upper case, and every
\* other one as a justified paragraph with its text unchanged.
C8_SubheadingLevelIsMarkerRun ==
    \A k \in ChapterKeySet \cap DOMAIN doc_sections :
        LET paragraphs == split_blank(doc_sections[k])
        IN  \A i \in 1..Len(paragraphs) :
                LET s == strip(paragraphs[i])
                    e == paragraph_elements(paragraphs[i])
                IN  s # "" =>
                      /\ Len(e) = 1
                      /\ IF startswith_hash(s)
                         THEN /\ e[1].kind = "heading"
                              /\ e[1].level = MarkerRun(s)
                              /\ e[1].text = upper(strip(lstrip(s, {"#"})))
                         ELSE e[1] = Paragraph(s, "JUSTIFY")

\* The number of page breaks of a document.
PageBreaks(doc) == Len(SelectSeq(doc.body, LAMBDA e : e.kind = "page_break"))

\* A generation run has just completed and saved its document.
RunCompleted == last.op = "generate" /\ last.outcome = "ok"

\* C9 as stated: the document saved by a complete generation run contains
\* 12 page breaks.
C9_TwelvePageBreaks == RunCompleted => PageBreaks(file[1]) = 12

\* C9 amended: the document saved by a complete generation run contains 11
\* page breaks: one after the cover page, one after the table-of-contents
\* block and one after each of the 9 sections other than COVER_PAGE and
\* CONTENTS.
C9_ElevenPageBreaks ==
    RunCompleted =>
        /\ PageBreaks(file[1]) = 11
        /\ PageBreaks(file[1]) = 2 + Len(ChapterKeys)

\* C9 witness: a complete run one section of which has several paragraphs.
C9_Witness ==
    /\ RunCompleted
    /\ \E k \in DOMAIN doc_sections : doc_sections[k] = T_HEAD

\* The keys of doc_sections are CONTENTS and the keys after it in the
\* catalog up to some position, with no gap.
KeysArePrefix ==
    \E n \in 1..Len(SECTION_KEYS) :
        DOMAIN doc_sections = {SECTION_KEYS[i] : i \in 2..n}

\* C10: the keys of doc_sections are always a prefix of the catalog order
\* without COVER_PAGE; a run all of whose backend calls succeeded leaves all
\* 10 keys; a feedback submission never changes the set of keys.
C10_KeysFormPrefix ==
    /\ [](KeysArePrefix /\ "COVER_PAGE" \notin DOMAIN doc_sections)
    /\ [](last.op = "generate" /\ last.outcome \in {"ok", "docx_error"} =>
              DOMAIN doc_sections = SectionKeySet \ {"COVER_PAGE"})
    /\ [][last'.op = "feedback" => DOMAIN doc_sections' = DOMAIN doc_sections]_vars

\* C10 witness: feedback was submitted for a section that an aborted run
\* left without an entry.
C10_Witness ==
    /\ last.op = "feedback"
    /\ last.outcome = "key_error"
    /\ Cardinality(DOMAIN doc_sections) \in 2..9

\* C11 as stated: a feedback submission is all or nothing whichever of its
\* steps fails: when it ends, either the section's entry holds the backend's
\* response, the output file is the document assembled from the revised
\* doc_sections and one FeedbackRecord was appended, or doc_sections,
\* the output file and feedback_history are all as before; so no section
\* is replaced by a revision without a FeedbackRecord for it.
C11_FeedbackAllOrNothing ==
    [][last'.op = "feedback" =>
          \/ UNCHANGED <<doc_sections, file, feedback_history>>
          \/ /\ Len(last'.invoked) = 1
             /\ last'.invoked[1].ok
             /\ last'.invoked[1].section \in DOMAIN doc_sections'
             /\ doc_sections'[last'.invoked[1].section] = last'.invoked[1].content
             /\ file' = <<create_docx(metadata', doc_sections')>>
             /\ Len(feedback_history') = Len(feedback_history) + 1]_vars

\* C12 as stated: for every section text stored from a backend, each
\* paragraph whose stripped text starts with '#' asks add_heading for a
\* level, len(first_token.strip('#')) + 1, between 1 and 9, so that no
\* handler ends with create_docx raising on the text of a section.
C12_HeadingLevelsAccepted ==
    /\ \A k \in ChapterKeySet \cap DOMAIN doc_sections :
           LET paragraphs == split_blank(doc_sections[k])
           IN  \A i \in 1..Len(paragraphs) :
                   startswith_hash(strip(paragraphs[i])) =>
                       heading_level(paragraphs[i]) + 1 \in 1..9
    /\ last.outcome # "docx_error"

====
